---- MODULE Spec2Model ----
(***************************************************************************)
(* The word-game server of src/server.py as a state machine: the main      *)
(* thread (main), one listener thread per admitted player (handle_player), *)
(* the players' channels, and the pure functions load_words and            *)
(* get_random_sequence.  Strings are tuples of one-character strings.      *)
(***************************************************************************)
EXTENDS Integers, Sequences, FiniteSets, TLC

(* Bounds of the model.  The session parameters of server.py (4 players,    *)
(* 3 lives) are instantiated smaller; MIN_PLAYERS = MAX_PLAYERS is kept.     *)
NumPlayers == 3
StartLives == 1
(* How many clients close (or reset) their end of the channel in one run.   *)
MaxPeerCloses == 1

MAX_PLAYERS == NumPlayers
MIN_PLAYERS == NumPlayers
LIVES_PER_PLAYER == StartLives

Slots == 1..MAX_PLAYERS

---------------------------------------------------------------------------
(* Strings: str.strip, str.lower, the substring test `seq in word`.         *)

Lower(c) ==
    CASE c = "A" -> "a"
      [] c = "B" -> "b"
      [] c = "C" -> "c"
      [] c = "S" -> "s"
      [] c = "T" -> "t"
      [] OTHER -> c

IsSpace(c) == c = " "

RECURSIVE LStrip(_)
LStrip(s) == IF s # <<>> /\ IsSpace(Head(s)) THEN LStrip(Tail(s)) ELSE s

RECURSIVE RStrip(_)
RStrip(s) ==
    IF s # <<>> /\ IsSpace(s[Len(s)]) THEN RStrip(SubSeq(s, 1, Len(s) - 1)) ELSE s

Strip(s) == RStrip(LStrip(s))

LowerStr(s) == [i \in 1..Len(s) |-> Lower(s[i])]

(* word[start:start + length], Python's zero-based slice                    *)
Slice(w, start, length) == SubSeq(w, start + 1, start + length)

(* `s in w` for Python strings: s is a contiguous substring of w            *)
IsSubstring(s, w) ==
    \E st \in 0..(Len(w) - Len(s)) : Slice(w, st, Len(s)) = s

---------------------------------------------------------------------------
(* The dictionary file and load_words.                                      *)

(* Where words.txt is found: the current directory (first open succeeds),   *)
(* only the script's directory (the fallback open), or nowhere.             *)
FileLocs == {"cwd", "script", "none"}

load_words(loc, lines) ==
    IF loc = "cwd"
    THEN {LowerStr(Strip(l)) : l \in {x \in lines : Len(Strip(x)) > 1}}
    ELSE IF loc = "script"
    THEN {LowerStr(Strip(l)) : l \in lines}
    ELSE {}

(* random.randint(a, b): one of a..b; an empty range raises ValueError.     *)
(* get_random_sequence: every outcome the random choices allow, as records, *)
(* ok = FALSE for a call that raises.                                       *)
get_random_sequence(words) ==
    IF words = {}
    THEN {[ok |-> TRUE, val |-> <<"a", "b">>]}
    ELSE UNION {
           IF Len(w) = 2
           THEN {[ok |-> TRUE, val |-> w]}
           ELSE UNION {
                  IF Len(w) - length < 0
                  THEN {[ok |-> FALSE, val |-> <<>>]}
                  ELSE {[ok |-> TRUE, val |-> Slice(w, start, length)] :
                           start \in 0..(Len(w) - length)}
                  : length \in 2..3}
           : w \in words}

---------------------------------------------------------------------------
(* Inputs of the environment.                                               *)

(* The lines of words.txt on disk.                                          *)
GameFile == {<<"A", "b", " ">>, <<"b", "a">>, <<"a">>}

(* What a client may type: sent as typed, no newline (client.py line 35).   *)
START == <<"s", "t", "a", "r", "t">>
RawInputs ==
    { <<"S", "t", "a", "r", "t">>,
      <<" ">>,
      <<"A", "B", " ">>,
      <<"b", "a">>,
      <<"a", "b", "c">> }

---------------------------------------------------------------------------
VARIABLES
    fs,              \* the dictionary file: [loc, lines]
    WORDS,           \* main: WORDS
    pc,              \* main thread: the statement it is at
    exit,            \* the process: "running", "returned", "exit1", "crashed"
    depth,           \* nesting depth of main() invocations
    bound,           \* a listening socket of this process holds HOST:PORT
    nplayers,        \* len(players); players are numbered in admission order
    active,          \* Player.active
    disconnected,    \* Player.disconnected
    lives,           \* Player.lives
    conn,            \* Player.conn: "none", "open", "peer_closed", "closed"
    game_started,    \* game_started[0]
    lpc,             \* handle_player thread of each player: its statement
    lbi,             \* handle_player: loop index of the broadcast it is in
    lbhalf,          \* handle_player: between lines 83 and 84 of that broadcast
    active_players,  \* main: the roster frozen at line 204
    used_words,      \* main: used_words
    last_word_valid, \* main: last_word_valid
    seq,             \* main: seq (<<>> while unassigned)
    turn,            \* main: turn
    round_num,       \* main: round_num
    player,          \* main: player (0 while unassigned)
    word,            \* main: word
    rres,            \* main: how the read of line 287 ended
    bi,              \* main: loop index of the broadcast it is in
    bhalf,           \* main: between lines 83/84 (99/100) of a send
    outcome,         \* main: branch of lines 319-353 last taken
    reason,          \* main: reason reported by that branch
    winner,          \* main: winner (0 while unassigned)
    skips            \* history: skips (line 248) since a turn last began

flags == <<active, disconnected>>
lvars == <<lpc, lbi, lbhalf>>
session == <<active_players, used_words, last_word_valid, seq, turn, round_num>>
hist == <<skips>>
locals == <<player, word, rres, outcome, reason, winner>>
bvars == <<bi, bhalf>>
procv == <<fs, WORDS, exit, depth, bound>>
vars == <<fs, WORDS, pc, exit, depth, bound, nplayers, active, disconnected,
          lives, conn, game_started, lpc, lbi, lbhalf, active_players,
          used_words, last_word_valid, seq, turn, round_num, player, word,
          rres, bi, bhalf, outcome, reason, winner, skips>>

Running == exit = "running"

Players == 1..nplayers

(* p.active and not p.disconnected                                          *)
Connected(p) == active[p] /\ ~disconnected[p]

(* len([p for p in players if p.active and not p.disconnected])             *)
ActiveCount == Cardinality({p \in Players : Connected(p)})

InitFor(files) ==
    /\ fs \in [loc : FileLocs, lines : files]
    /\ WORDS = {}
    /\ pc = "load"
    /\ exit = "running"
    /\ depth = 1
    /\ bound = FALSE
    /\ nplayers = 0
    /\ active = [p \in Slots |-> FALSE]
    /\ disconnected = [p \in Slots |-> FALSE]
    /\ lives = [p \in Slots |-> 0]
    /\ conn = [p \in Slots |-> "none"]
    /\ game_started = FALSE
    /\ lpc = [p \in Slots |-> "idle"]
    /\ lbi = [p \in Slots |-> 1]
    /\ lbhalf = [p \in Slots |-> FALSE]
    /\ active_players = <<>>
    /\ used_words = {}
    /\ last_word_valid = TRUE
    /\ seq = <<>>
    /\ turn = 0
    /\ round_num = 1
    /\ player = 0
    /\ word = <<>>
    /\ rres = "none"
    /\ bi = 1
    /\ bhalf = FALSE
    /\ outcome = "none"
    /\ reason = "none"
    /\ winner = 0
    /\ skips = 0

Init == InitFor({GameFile})

---------------------------------------------------------------------------
(* broadcast (lines 78-84) run by a thread from loop index i over the first  *)
(* n players, sending to those in targets.  A send on a channel the server  *)
(* closed raises; a send on a channel the peer closed may raise.  The       *)
(* sends that succeed change no state and are taken in one step; the run    *)
(* stops after line 83 of a send that raised (half), so that the state      *)
(* between lines 83 and 84 is one other threads see.  act is Player.active  *)
(* as the run goes.  The result: every outcome, as the new index, half and  *)
(* flags; the loop is over when the index is past n.                        *)
RECURSIVE send_run(_, _, _, _)
send_run(i, n, targets, act) ==
    IF i > n
    THEN {[i |-> i, half |-> FALSE, disconnected |-> disconnected,
           active |-> act]}
    ELSE IF i \in targets /\ act[i] /\ ~disconnected[i]
    THEN (IF conn[i] # "closed" THEN send_run(i + 1, n, targets, act) ELSE {})
         \cup
         (IF conn[i] # "open"
          THEN {[i |-> i, half |-> TRUE,
                 disconnected |-> [disconnected EXCEPT ![i] = TRUE],
                 active |-> act]}
          ELSE {})
    ELSE send_run(i + 1, n, targets, act)

(* lines 83-84 marking every player when one send raises *)
broadcast_MarksEveryone(i, half, n, targets) ==
    { IF o.disconnected = disconnected
      THEN o
      ELSE [o EXCEPT !.disconnected = [q \in Slots |-> q \in Players]] :
      o \in IF half
            THEN send_run(i + 1, n, targets, [active EXCEPT ![i] = FALSE])
            ELSE send_run(i, n, targets, active) }

(* half: the thread is between lines 83 and 84 for player i                 *)
broadcast(i, half, n, targets) ==
    IF half
    THEN send_run(i + 1, n, targets, [active EXCEPT ![i] = FALSE])
    ELSE send_run(i, n, targets, active)

(* send_to_player (lines 95-100): the same for the one player               *)
send_to_player(p, half) == broadcast(p, half, p, {p})

---------------------------------------------------------------------------
(* The environment: a client closes (or resets) its end of the channel.     *)
PeerClose(p) ==
    /\ Running
    /\ conn[p] = "open"
    /\ Cardinality({q \in Slots : conn[q] = "peer_closed"}) < MaxPeerCloses
    /\ conn' = [conn EXCEPT ![p] = "peer_closed"]
    /\ UNCHANGED <<procv, pc, nplayers, flags, lives, game_started, lvars,
                   session, locals, bvars, hist>>

---------------------------------------------------------------------------
(* handle_player, the listener thread of player p.                          *)

(* line 118 returns data: lines 119-125, and back to lines 113-118.  The    *)
(* thread is blocked in recv whenever it is not past the loop.              *)
L_RecvData(p) ==
    /\ Running
    /\ lpc[p] = "recv"
    /\ conn[p] = "open"
    /\ \E raw \in RawInputs :
         IF ~game_started /\ LowerStr(Strip(raw)) = START
            /\ ActiveCount >= MIN_PLAYERS
         THEN /\ game_started' = TRUE
              /\ lpc' = [lpc EXCEPT ![p] = "b126"]
         ELSE /\ lpc' = [lpc EXCEPT ![p] = IF game_started THEN "done" ELSE "recv"]
              /\ UNCHANGED game_started
    /\ UNCHANGED <<procv, pc, nplayers, flags, lives, conn, lbi, lbhalf,
                   session, locals, bvars, hist>>

(* line 118 returns b"" (line 120) or raises (line 130): the peer closed    *)
(* or reset the channel; then line 133.  A recv that is blocked when        *)
(* another thread closes the socket is not woken.                           *)
L_RecvFail(p) ==
    /\ Running
    /\ lpc[p] = "recv"
    /\ conn[p] = "peer_closed"
    /\ disconnected' = [disconnected EXCEPT ![p] = TRUE]
    /\ lpc' = [lpc EXCEPT ![p] = "m134"]
    /\ UNCHANGED <<procv, pc, nplayers, active, lives, conn, game_started,
                   lbi, lbhalf, session, locals, bvars, hist>>

(* lines 139-145: every channel is closed and os._exit(1) ends the process *)
AllClosed == [q \in Slots |-> IF q \in Players THEN "closed" ELSE conn[q]]

(* The rest of a listener's broadcast, and what follows it: line 128        *)
(* returns; lines 139-145 close the channels and end the process.           *)
L_Run(p, at, outs) ==
    \E o \in outs :
      /\ disconnected' = o.disconnected
      /\ active' = o.active
      /\ lbhalf' = [lbhalf EXCEPT ![p] = o.half]
      /\ IF o.i <= nplayers
         THEN /\ lbi' = [lbi EXCEPT ![p] = o.i]
              /\ lpc' = [lpc EXCEPT ![p] = at]
              /\ UNCHANGED <<conn, exit>>
         ELSE /\ lbi' = [lbi EXCEPT ![p] = 1]
              /\ IF at = "b126"
                 THEN /\ lpc' = [lpc EXCEPT ![p] = "done"]
                      /\ UNCHANGED <<conn, exit>>
                 ELSE /\ lpc' = [lpc EXCEPT ![p] = "x145"]
                      /\ conn' = AllClosed
                      /\ exit' = "exit1"

(* lines 134-145 *)
L_Shutdown(p) ==
    /\ Running
    /\ lpc[p] = "m134"
    /\ L_Run(p, "b136", send_run(1, nplayers, Players,
                                 [active EXCEPT ![p] = FALSE]))
    /\ UNCHANGED <<fs, WORDS, depth, bound, pc, nplayers, lives,
                   game_started, session, locals, bvars, hist>>

(* lines 126-128, and line 136 onward after a send of it raised *)
L_Broadcast(p) ==
    /\ Running
    /\ lpc[p] \in {"b126", "b136"}
    /\ L_Run(p, lpc[p], broadcast(lbi[p], lbhalf[p], nplayers, Players))
    /\ UNCHANGED <<fs, WORDS, depth, bound, pc, nplayers, lives,
                   game_started, session, locals, bvars, hist>>

Listener(p) ==
    \/ L_RecvData(p)
    \/ L_RecvFail(p)
    \/ L_Shutdown(p)
    \/ L_Broadcast(p)

---------------------------------------------------------------------------
(* main, the main thread.                                                   *)

(* lines 154-157 *)
LoadWords ==
    /\ Running
    /\ pc = "load"
    /\ WORDS' = load_words(fs.loc, fs.lines)
    /\ IF WORDS' = {}
       THEN exit' = "returned" /\ pc' = "load"
       ELSE exit' = exit /\ pc' = "bind"
    /\ UNCHANGED <<fs, depth, bound, nplayers, flags, lives, conn,
                   game_started, lvars, session, locals, bvars, hist>>

(* lines 161-170.  bind raises OSError while a listening socket of the      *)
(* process still holds the address; the exception leaves the nested main    *)
(* and is caught at line 383 of the invocation that called it.              *)
Bind ==
    /\ Running
    /\ pc = "bind"
    /\ IF bound
       THEN pc' = "except383" /\ depth' = depth - 1 /\ UNCHANGED bound
       ELSE pc' = "accept" /\ bound' = TRUE /\ UNCHANGED depth
    /\ UNCHANGED <<fs, WORDS, exit, nplayers, flags, lives, conn,
                   game_started, lvars, session, locals, bvars, hist>>

(* lines 173-190: the loop test, and one admission; the new thread runs     *)
(* lines 113-118 and blocks in recv                                         *)
Accept ==
    /\ Running
    /\ pc = "accept"
    /\ IF nplayers < MAX_PLAYERS /\ ~game_started
       THEN /\ nplayers' = nplayers + 1
            /\ active' = [active EXCEPT ![nplayers'] = TRUE]
            /\ disconnected' = [disconnected EXCEPT ![nplayers'] = FALSE]
            /\ lives' = [lives EXCEPT ![nplayers'] = LIVES_PER_PLAYER]
            /\ conn' = [conn EXCEPT ![nplayers'] = "open"]
            /\ lpc' = [lpc EXCEPT ![nplayers'] = "recv"]
            /\ UNCHANGED pc
       ELSE /\ pc' = "wait"
            /\ UNCHANGED <<nplayers, flags, lives, conn, lpc>>
    /\ UNCHANGED <<procv, game_started, lbi, lbhalf, session, locals,
                   bvars, hist>>

(* line 193: the loop is left when its test fails; while it holds the       *)
(* thread sleeps and tests again                                            *)
WaitStart ==
    /\ Running
    /\ pc = "wait"
    /\ ~(~game_started /\ ActiveCount >= MIN_PLAYERS)
    /\ pc' = "chk196"
    /\ UNCHANGED <<procv, nplayers, flags, lives, conn, game_started, lvars,
                   session, locals, bvars, hist>>

(* lines 196-201, and 204-206 *)
StartOrAbort ==
    /\ Running
    /\ pc = "chk196"
    /\ IF ~game_started
       THEN /\ conn' = AllClosed
            /\ bound' = FALSE
            /\ exit' = "returned"
            /\ UNCHANGED <<pc, session>>
       ELSE /\ active_players' = SelectSeq([i \in 1..nplayers |-> i], Connected)
            /\ used_words' = {}
            /\ last_word_valid' = TRUE
            /\ pc' = "b217"
            /\ UNCHANGED <<conn, bound, exit, seq, turn, round_num>>
    /\ UNCHANGED <<fs, WORDS, depth, nplayers, flags, lives, game_started,
                   lvars, locals, bvars, hist>>

(* The roster as a set, and its members other than the acting player.       *)
Roster == {active_players[i] : i \in 1..Len(active_players)}

(* The broadcasts of main: whom each is addressed to, and what follows it. *)
(* Lines 276, 324, 332 and 351 pass the roster without the acting player;  *)
(* the others pass players.                                                 *)
BroadcastPcs ==
    {"b217", "b219", "b221", "b223", "b225", "b227", "b264", "b265", "b266",
     "b276", "bres", "b307", "b365", "b366", "b367"}

BroadcastTargets(at) ==
    IF at \in {"b276", "bres"} THEN Roster \ {player} ELSE Players

AfterBroadcast(at) ==
    CASE at = "b217" -> "b219"
      [] at = "b219" -> "b221"
      [] at = "b221" -> "b223"
      [] at = "b223" -> "b225"
      [] at = "b225" -> "b227"
      [] at = "b227" -> "init231"
      [] at = "b264" -> "b265"
      [] at = "b265" -> "b266"
      [] at = "b266" -> "s272"
      [] at = "b276" -> "t282"
      [] at = "bres" -> "next"
      [] at = "b307" -> "close308"
      [] at = "b365" -> "b366"
      [] at = "b366" -> "b367"
      [] at = "b367" -> "choice"

(* a broadcast of main *)
Broadcast ==
    /\ Running
    /\ pc \in BroadcastPcs
    /\ \E o \in broadcast(bi, bhalf, nplayers, BroadcastTargets(pc)) :
         /\ disconnected' = o.disconnected
         /\ active' = o.active
         /\ bhalf' = o.half
         /\ IF o.i > nplayers
            THEN bi' = 1 /\ pc' = AfterBroadcast(pc)
            ELSE bi' = o.i /\ pc' = pc
    /\ UNCHANGED <<procv, nplayers, lives, conn, game_started, lvars,
                   session, locals, hist>>

(* send_to_player(player, ...) at lines 272, 323, 331 and 350 *)
AfterSend(at) == IF at = "s272" THEN "b276" ELSE "bres"

SendToPlayer ==
    /\ Running
    /\ pc \in {"s272", "sres"}
    /\ \E o \in send_to_player(player, bhalf) :
         /\ disconnected' = o.disconnected
         /\ active' = o.active
         /\ bhalf' = o.half
         /\ pc' = IF o.half THEN pc ELSE AfterSend(pc)
    /\ UNCHANGED <<procv, nplayers, lives, conn, game_started, lvars,
                   session, locals, bi, hist>>

(* lines 231-232 *)
InitLoop ==
    /\ Running
    /\ pc = "init231"
    /\ turn' = 0
    /\ round_num' = 1
    /\ pc' = "loop"
    /\ UNCHANGED <<procv, nplayers, flags, lives, conn, game_started, lvars,
                   active_players, used_words, last_word_valid, seq, locals,
                   bvars, hist>>

(* p.active and not p.disconnected and p.lives > 0 *)
Eligible(p) == active[p] /\ ~disconnected[p] /\ lives[p] > 0

(* [p for p in active_players if p.active and not p.disconnected and p.lives > 0] *)
Remaining == SelectSeq(active_players, Eligible)

(* line 239 *)
LoopTest ==
    /\ Running
    /\ pc = "loop"
    /\ pc' = IF Len(Remaining) > 1 THEN "pick" ELSE "over"
    /\ UNCHANGED <<procv, nplayers, flags, lives, conn, game_started, lvars,
                   session, locals, bvars, hist>>

(* active_players[turn % len(active_players)] *)
(* the roster walked from its end *)
RosterAt_Backwards(t) ==
    active_players[Len(active_players) - (t % Len(active_players))]

RosterAt(t) == active_players[(t % Len(active_players)) + 1]

(* line 245 without the test of lives *)
Skipped_IgnoresLives(p) == ~active[p] \/ disconnected[p]

(* line 245 *)
Skipped(p) == lives[p] <= 0 \/ ~active[p] \/ disconnected[p]

(* lines 241-249 *)
Pick ==
    /\ Running
    /\ pc = "pick"
    /\ player' = RosterAt(turn)
    /\ IF Skipped(player')
       THEN turn' = turn + 1 /\ pc' = "loop" /\ skips' = skips + 1
       ELSE turn' = turn /\ pc' = "seq" /\ skips' = skips
    /\ UNCHANGED <<procv, nplayers, flags, lives, conn, game_started, lvars,
                   active_players, used_words, last_word_valid, seq,
                   round_num, word, rres, outcome, reason, winner, bvars>>

(* lines 252-253 without the test of last_word_valid *)
NextSequence_AlwaysFresh ==
    /\ Running
    /\ pc = "seq"
    /\ IF TRUE
       THEN \E r \in get_random_sequence(WORDS) :
              IF r.ok
              THEN seq' = r.val /\ pc' = "b264" /\ exit' = exit
              ELSE seq' = seq /\ pc' = pc /\ exit' = "crashed"
       ELSE seq' = seq /\ pc' = "b264" /\ exit' = exit
    /\ UNCHANGED <<fs, WORDS, depth, bound, nplayers, flags, lives, conn,
                   game_started, lvars, active_players, used_words,
                   last_word_valid, turn, round_num, locals, bvars, hist>>

(* lines 252-258; a ValueError of get_random_sequence ends main *)
NextSequence ==
    /\ Running
    /\ pc = "seq"
    /\ IF last_word_valid
       THEN \E r \in get_random_sequence(WORDS) :
              IF r.ok
              THEN seq' = r.val /\ pc' = "b264" /\ exit' = exit
              ELSE seq' = seq /\ pc' = pc /\ exit' = "crashed"
       ELSE seq' = seq /\ pc' = "b264" /\ exit' = exit
    /\ UNCHANGED <<fs, WORDS, depth, bound, nplayers, flags, lives, conn,
                   game_started, lvars, active_players, used_words,
                   last_word_valid, turn, round_num, locals, bvars, hist>>

(* lines 282-284; settimeout on a socket the server closed raises OSError   *)
SetTimeout ==
    /\ Running
    /\ pc = "t282"
    /\ IF conn[player] = "closed"
       THEN exit' = "crashed" /\ UNCHANGED <<pc, word, rres>>
       ELSE exit' = exit /\ pc' = "recv" /\ word' = <<>> /\ rres' = "none"
    /\ UNCHANGED <<fs, WORDS, depth, bound, nplayers, flags, lives, conn,
                   game_started, lvars, session, player, outcome, reason,
                   winner, bvars, hist>>

(* line 287 returns data: lines 289-291 *)
RecvData ==
    /\ Running
    /\ pc = "recv"
    /\ conn[player] = "open"
    /\ \E raw \in RawInputs : word' = LowerStr(Strip(raw))
    /\ rres' = "data"
    /\ pc' = "t301"
    /\ UNCHANGED <<procv, nplayers, flags, lives, conn, game_started, lvars,
                   session, player, outcome, reason, winner, bvars, hist>>

(* line 287 without the deadline of line 282: the read never times out *)
RecvTimeout_NoDeadline == Running /\ pc = "recv" /\ FALSE /\ UNCHANGED vars

(* line 287 runs into the deadline: lines 295-297 *)
RecvTimeout ==
    /\ Running
    /\ pc = "recv"
    /\ conn[player] = "open"
    /\ word' = <<>>
    /\ rres' = "timeout"
    /\ pc' = "t301"
    /\ UNCHANGED <<procv, nplayers, flags, lives, conn, game_started, lvars,
                   session, player, outcome, reason, winner, bvars, hist>>

(* line 287 returns b"" (lines 292-294) or raises another error (298-300)   *)
RecvFail ==
    /\ Running
    /\ pc = "recv"
    /\ conn[player] # "open"
    /\ rres' \in IF conn[player] = "peer_closed" THEN {"eof", "error"} ELSE {"error"}
    /\ word' = <<>>
    /\ pc' = "t301"
    /\ UNCHANGED <<procv, nplayers, flags, lives, conn, game_started, lvars,
                   session, player, outcome, reason, winner, bvars, hist>>

(* line 301 *)
ClearTimeout ==
    /\ Running
    /\ pc = "t301"
    /\ IF conn[player] = "closed"
       THEN exit' = "crashed" /\ UNCHANGED pc
       ELSE exit' = exit /\ pc' = "dchk"
    /\ UNCHANGED <<fs, WORDS, depth, bound, nplayers, flags, lives, conn,
                   game_started, lvars, session, locals, bvars, hist>>

(* line 305 *)
DisconnectCheck ==
    /\ Running
    /\ pc = "dchk"
    /\ pc' = IF disconnected[player] THEN "b307" ELSE "resolve"
    /\ UNCHANGED <<procv, nplayers, flags, lives, conn, game_started, lvars,
                   session, locals, bvars, hist>>

(* lines 308-314 *)
FailFast ==
    /\ Running
    /\ pc = "close308"
    /\ conn' = AllClosed
    /\ exit' = "exit1"
    /\ UNCHANGED <<fs, WORDS, depth, bound, pc, nplayers, flags, lives,
                   game_started, lvars, session, locals, bvars, hist>>

(* line 327 without the test of used_words *)
Accepts_IgnoresUsed(w) == IsSubstring(seq, w) /\ w \in WORDS

(* line 327 *)
Accepts(w) == IsSubstring(seq, w) /\ w \in WORDS /\ w \notin used_words

(* lines 339-348 *)
ReasonFor(w) ==
    IF w = <<>> THEN "TIMEOUT"
    ELSE IF ~IsSubstring(seq, w) THEN "Word doesn't contain seq"
    ELSE IF w \notin WORDS THEN "Not a valid word"
    ELSE IF w \in used_words THEN "Word already used"
    ELSE "Invalid word"

(* lines 322 and 338 both taken in one turn *)
LoseLife_Twice(p) == [lives EXCEPT ![p] = @ - 2]

(* lines 322 and 338: player.lives -= 1 *)
LoseLife(p) == [lives EXCEPT ![p] = @ - 1]

(* lines 319-353, up to the messages: the branch taken and its effect on    *)
(* lives and used_words                                                     *)
Resolve ==
    /\ Running
    /\ pc = "resolve"
    /\ IF word = <<>>
       THEN /\ lives' = LoseLife(player)
            /\ outcome' = "timeout"
            /\ reason' = "TIMEOUT"
            /\ UNCHANGED used_words
       ELSE IF Accepts(word)
       THEN /\ used_words' = used_words \cup {word}
            /\ outcome' = "accepted"
            /\ reason' = "none"
            /\ UNCHANGED lives
       ELSE /\ lives' = LoseLife(player)
            /\ outcome' = "rejected"
            /\ reason' = ReasonFor(word)
            /\ UNCHANGED used_words
    /\ pc' = "sres"
    /\ UNCHANGED <<procv, nplayers, flags, conn, game_started, lvars,
                   active_players, last_word_valid, seq, turn, round_num,
                   player, word, rres, winner, bvars, hist>>

(* lines 326, 334, 353 and 356-358.  word, data and reason are not read     *)
(* again before lines 283-284 assign them: they are cleared here.           *)
NextTurn ==
    /\ Running
    /\ pc = "next"
    /\ last_word_valid' = (outcome = "accepted")
    /\ turn' = turn + 1
    /\ round_num' = IF turn' % Len(active_players) = 0
                    THEN round_num + 1 ELSE round_num
    /\ word' = <<>>
    /\ rres' = "none"
    /\ reason' = "none"
    /\ pc' = "loop"
    /\ skips' = 0
    /\ UNCHANGED <<procv, nplayers, flags, lives, conn, game_started, lvars,
                   active_players, used_words, seq, player, outcome, winner,
                   bvars>>

(* line 364: [...][0] raises IndexError on an empty list *)
Winner ==
    /\ Running
    /\ pc = "over"
    /\ IF Remaining = <<>>
       THEN exit' = "crashed" /\ UNCHANGED <<pc, winner>>
       ELSE exit' = exit /\ winner' = Remaining[1] /\ pc' = "b365"
    /\ UNCHANGED <<fs, WORDS, depth, bound, nplayers, flags, lives, conn,
                   game_started, lvars, session, player, word, rres, outcome,
                   reason, bvars, hist>>

(* lines 372-377 and 383-387: 'quit', or input() raising *)
Quit ==
    /\ Running
    /\ pc \in {"choice", "except383"}
    /\ conn' = AllClosed
    /\ bound' = FALSE
    /\ exit' = "returned"
    /\ UNCHANGED <<fs, WORDS, depth, pc, nplayers, flags, lives,
                   game_started, lvars, session, locals, bvars, hist>>

(* lines 378-381: any other input calls main() again *)
Restart ==
    /\ Running
    /\ pc = "choice"
    /\ depth' = depth + 1
    /\ pc' = "load"
    /\ UNCHANGED <<fs, WORDS, exit, bound, nplayers, flags, lives, conn,
                   game_started, lvars, session, locals, bvars, hist>>

(* The statements of main that return without a client doing anything.     *)
MainStep ==
    \/ LoadWords
    \/ Bind
    \/ Accept
    \/ WaitStart
    \/ StartOrAbort
    \/ Broadcast
    \/ SendToPlayer
    \/ InitLoop
    \/ LoopTest
    \/ Pick
    \/ NextSequence
    \/ SetTimeout
    \/ RecvTimeout
    \/ RecvFail
    \/ ClearTimeout
    \/ DisconnectCheck
    \/ FailFast
    \/ Resolve
    \/ NextTurn
    \/ Winner
    \/ Quit
    \/ Restart

Main ==
    \/ MainStep
    \/ RecvData

Next ==
    \/ \E p \in Slots : PeerClose(p)
    \/ \E p \in Slots : Listener(p)
    \/ Main

Spec == Init /\ [][Next]_vars

(* The session whose bank comes from the working directory (lines 22-23).  *)
InitCwd == Init /\ fs.loc = "cwd"

(* The main thread is always scheduled, and none of its statements waits    *)
(* for a client for ever: the read of line 287 has the deadline of line     *)
(* 282.  Nothing is assumed of the clients or of the listeners.             *)
FairSpec == InitCwd /\ [][Next]_vars /\ WF_vars(MainStep)

---------------------------------------------------------------------------
(* Properties.                                                              *)

(* The statements of a turn: from the choice of the sequence to the         *)
(* messages that report the result.                                         *)
TurnPcs ==
    {"seq", "b264", "b265", "b266", "s272", "b276", "t282", "recv", "t301",
     "dchk", "resolve", "sres", "bres", "next"}

(* A step that resolves a turn (lines 319-353).                             *)
ResolveStep == pc = "resolve" /\ pc' = "sres"

(* C1: a resolved turn accepts the submitted word iff it is non-empty,      *)
(* contains seq, is in WORDS and is not in used_words; otherwise the turn   *)
(* is a timeout or a rejection and the reason reported is the first that    *)
(* applies of: empty/timeout, does not contain the sequence, not a valid    *)
(* word, already used.                                                      *)
C1_Validation ==
    [][ResolveStep =>
          LET nonempty == word # <<>>
              contains == IsSubstring(seq, word)
              inbank   == word \in WORDS
              unused   == word \notin used_words
          IN  /\ (outcome' = "accepted")
                   <=> (nonempty /\ contains /\ inbank /\ unused)
              /\ outcome' \in {"accepted", "timeout", "rejected"}
              /\ (outcome' = "accepted") => used_words' = used_words \cup {word}
              /\ (outcome' # "accepted") =>
                   /\ used_words' = used_words
                   /\ reason' =
                        CASE ~nonempty -> "TIMEOUT"
                          [] nonempty /\ ~contains -> "Word doesn't contain seq"
                          [] nonempty /\ contains /\ ~inbank -> "Not a valid word"
                          [] OTHER -> "Word already used"
       ]_vars

(* C1 witness: a word that contains the sequence and is in the bank has     *)
(* been rejected as already used.                                           *)
C1_Witness ==
    /\ pc = "sres"
    /\ outcome = "rejected"
    /\ reason = "Word already used"
    /\ word \in WORDS
    /\ IsSubstring(seq, word)

(* C5: every player's lives stay within 0..LIVES_PER_PLAYER.                *)
C5_LivesInRange ==
    \A p \in Slots : 0 <= lives[p] /\ lives[p] <= LIVES_PER_PLAYER

(* C5 witness: a player who lost the last life is passed over while the     *)
(* game goes on.                                                            *)
C5_Witness ==
    /\ pc = "loop"
    /\ skips > 0
    /\ player \in Players
    /\ lives[player] = 0
    /\ active[player] /\ ~disconnected[player]
    /\ Len(Remaining) > 1

(* C6: a resolved turn takes exactly one life from the acting player when   *)
(* it is a timeout or a rejection and none when the word is accepted, and   *)
(* leaves the lives of every other player as they were.                     *)
C6_LivesFrame ==
    /\ [][ResolveStep =>
             \A p \in Slots :
               lives'[p] =
                 IF p = RosterAt(turn)
                 THEN (IF outcome' \in {"timeout", "rejected"}
                       THEN lives[p] - 1 ELSE lives[p])
                 ELSE lives[p]
          ]_vars
    /\ [][~ResolveStep /\ pc \in TurnPcs => lives' = lives
          ]_vars

(* C6 witness: a rejection has cost the acting player a life while another  *)
(* player still has all of them.                                            *)
C6_Witness ==
    /\ pc = "sres"
    /\ outcome = "rejected"
    /\ lives[player] = LIVES_PER_PLAYER - 1
    /\ \E q \in Roster \ {player} : lives[q] = LIVES_PER_PLAYER

(* C10: the sequence changes only where a turn chooses it (lines 252-253),  *)
(* and only on the first turn or after an accepted word: after a timeout or *)
(* a rejection the next acting player is given the same sequence.           *)
C10_SequenceReuse ==
    [][ /\ (seq' # seq) => (pc = "seq" /\ outcome \in {"none", "accepted"})
        /\ (pc = "seq" /\ pc' = "b264" /\ outcome \in {"timeout", "rejected"})
             => seq' = seq
      ]_vars

(* C10 witness: after a rejection, a different player is prompted with the  *)
(* sequence of the rejected turn.                                           *)
C10_Witness ==
    /\ pc = "s272"
    /\ outcome = "rejected"
    /\ turn > 0
    /\ player # RosterAt(turn - 1)
    /\ seq # <<>>

(* The statements of a turn that is not resolved yet.                       *)
OpenTurnPcs == TurnPcs \ {"sres", "bres", "next"}

(* No listener is inside a broadcast or on its way to shut the server down: *)
(* each has returned or is blocked in the read of line 118 on a channel     *)
(* its client has not closed.                                               *)
ListenersQuiet ==
    \A q \in Slots :
      \/ lpc[q] \in {"idle", "done"}
      \/ lpc[q] = "recv" /\ conn[q] = "open"

(* C2: once a channel failure has been detected - a listener or a send has  *)
(* marked a player disconnected, or the read of line 287 has returned       *)
(* end-of-stream or raised an error other than the deadline - no turn is    *)
(* started or resolved.  Stated for the states in which no listener is      *)
(* still at work, so that a shutdown that is under way is not counted.      *)
C2_FailureEndsSession ==
    [][ (/\ ListenersQuiet
         /\ \/ \E p \in Players : disconnected[p]
            \/ rres \in {"eof", "error"})
        => ~(ResolveStep \/ (pc = "pick" /\ pc' = "seq"))
      ]_vars

(* C3: no listener is reading a player's channel while the turn engine      *)
(* reads it.                                                                *)
C3_SingleReader ==
    \A p \in Slots : ~(pc = "recv" /\ player = p /\ lpc[p] = "recv")

(* C4: when the turn loop is left, exactly one roster member is active,     *)
(* connected and has lives > 0, and the winner announced is that member.    *)
(* Stated for the states in which no listener is at work.                   *)
C4_UniqueWinner ==
    /\ pc = "over" /\ ListenersQuiet => Len(Remaining) = 1
    /\ pc = "b365" /\ bi = 1 /\ ~bhalf /\ ListenersQuiet
         => <<winner>> = Remaining

(* C7 as stated: a player with lives <= 0, inactive or disconnected is      *)
(* never read.  Stated for the states in which no listener is at work, so   *)
(* that the flags are those main itself has left.                           *)
C7_NeverReadsIneligible ==
    pc = "recv" /\ ListenersQuiet => Eligible(player)

(* C7, amended: the player considered at turn counter t is                  *)
(* roster[t mod rosterSize]; a player who is found with lives <= 0,         *)
(* inactive or disconnected at the check of line 245 is not prompted or     *)
(* read for that counter value and the counter advances by one; a player    *)
(* who passes the check becomes the acting player without the counter       *)
(* moving; the counter moves by one only, at a skip or at the end of the    *)
(* acting player's turn, so no roster member is passed over unchecked.      *)
C7_RoundRobin ==
    /\ [](pc \in TurnPcs =>
            /\ player = active_players[(turn % Len(active_players)) + 1]
            /\ (pc \in OpenTurnPcs => lives[player] > 0))
    /\ [][pc = "pick" /\ pc' # pc =>
            LET p == active_players[(turn % Len(active_players)) + 1]
            IN  /\ player' = p
                /\ IF lives[p] <= 0 \/ ~active[p] \/ disconnected[p]
                   THEN turn' = turn + 1 /\ pc' = "loop"
                   ELSE turn' = turn /\ pc' = "seq"
       ]_vars
    /\ [][turn' # turn /\ pc # "init231" =>
            /\ turn' = turn + 1
            /\ pc \in {"pick", "next"}
       ]_vars

(* C7 witness: the player of the last counter value was skipped for having  *)
(* no lives, and the next roster member, who is eligible, is considered.    *)
C7_Witness ==
    /\ pc = "pick"
    /\ skips = 1
    /\ lives[player] = 0
    /\ player = RosterAt(turn - 1)
    /\ Eligible(RosterAt(turn))

C9_SequenceWellFormed ==
    /\ ~(pc = "seq" /\ exit = "crashed")
    /\ pc \in TurnPcs \ {"seq"} =>
         /\ Len(seq) \in {2, 3}
         /\ \E w \in WORDS : IsSubstring(seq, w)

(* C11: in every state, those between lines 83 and 84 and between lines    *)
(* 133 and 134 included, a player that is marked disconnected is not        *)
(* active.                                                                  *)
C11_DisconnectedNotActive ==
    \A p \in Slots : disconnected[p] => ~active[p]

(* C12: when a player's channel closes in the lobby, the process ends with  *)
(* the status of os._exit(1), under every interleaving of that player's     *)
(* listener with the wait loop of line 193.                                 *)
C12_LobbyCloseExitsNonZero ==
    (/\ ~game_started
     /\ exit # "running"
     /\ \E p \in Players : disconnected[p])
    => exit = "exit1"

(* C13: a new game after GAME OVER does not nest the invocations of main,   *)
(* and it gets to listen and admit players again.                           *)
C13_RestartReentersLobby ==
    /\ depth <= 1
    /\ pc # "except383"

(* C14: the listening socket is bound only when the bank is a non-empty     *)
(* set of words each longer than one character.                             *)
C14_ListensOnlyWithValidBank ==
    bound => (WORDS # {} /\ \A w \in WORDS : Len(w) > 1)

(* The read of line 287 returned b"" (lines 292-294) or raised an error     *)
(* other than the deadline (lines 298-300).                                 *)
ReadFailed == rres \in {"eof", "error"}

(* C15: a turn whose read returned end-of-stream or raised an error other   *)
(* than the deadline is not resolved: the acting player's lives and         *)
(* last_word_valid are as they were when the turn began.  Stated for the    *)
(* states in which no listener is at work.                                  *)
C15_ReadFailureNotResolved ==
    [][ ReadFailed /\ ListenersQuiet =>
          /\ ~ResolveStep
          /\ lives' = lives
          /\ last_word_valid' = last_word_valid
      ]_vars

(* A step of a broadcast or send_to_player of main, and a step of the       *)
(* broadcast of line 126 of a listener.                                     *)
MainSendStep ==
    /\ pc \in BroadcastPcs \cup {"s272", "sres"}
    /\ <<pc, bi, bhalf>>' # <<pc, bi, bhalf>>

ListenerSendStep ==
    \E q \in Slots :
      /\ lpc[q] = "b126"
      /\ <<lpc[q], lbi[q], lbhalf[q]>>' # <<lpc[q], lbi[q], lbhalf[q]>>

(* C16: a step of broadcast or send_to_player changes no lives, closes no   *)
(* channel, does not end the process and leaves used_words, seq and turn    *)
(* alone; the only flags it changes are those of players whose send         *)
(* raised: disconnected becomes true, active becomes false, and neither     *)
(* is ever set back, so that later sends skip the player.                   *)
C16_DeliveryFailureFrame ==
    [][ (MainSendStep \/ ListenerSendStep) =>
          /\ lives' = lives
          /\ conn' = conn
          /\ exit' = exit
          /\ <<used_words, seq, turn, round_num, last_word_valid,
               active_players>>'
               = <<used_words, seq, turn, round_num, last_word_valid,
                   active_players>>
          /\ \A p \in Slots :
               /\ disconnected[p] => disconnected'[p]
               /\ ~active[p] => ~active'[p]
               /\ disconnected'[p] # disconnected[p]
                    => (active[p] /\ conn[p] # "open")
               /\ active'[p] # active[p] => disconnected'[p]
      ]_vars

(* C16 witness: a send to a player has raised and both flags are set; the   *)
(* channels of the others are open and main is reading the acting           *)
(* player's word.                                                           *)
C16_Witness ==
    /\ Running
    /\ pc = "recv"
    /\ ListenersQuiet
    /\ \E p \in Players \ {player} :
         /\ disconnected[p] /\ ~active[p]
         /\ conn[p] = "peer_closed"
    /\ conn[player] = "open"

(* The statements of the turn loop.                                         *)
LoopPcs == {"loop", "pick", "over"} \cup TurnPcs

(* C17: the roster frozen at line 204 holds at least MIN_PLAYERS players    *)
(* whenever the turn loop runs.                                             *)
C17_RosterAtLeastMin ==
    pc \in LoopPcs /\ ListenersQuiet => Len(active_players) >= MIN_PLAYERS

(* C18: the round number announced at line 264 is 1 plus the number of      *)
(* full passes the turn counter has made over the roster.                   *)
C18_RoundCountsPasses ==
    pc = "b264" /\ ListenersQuiet
      => round_num = 1 + (turn \div Len(active_players))

(* C19: once the game has started, no listener returns from its read of     *)
(* line 118 with what the acting player sent during the read of line 287.   *)
C19_OnlyTurnEngineConsumes ==
    [][ game_started /\ pc = "recv" =>
          \A p \in Slots :
            (p = player /\ lpc[p] = "recv" /\ conn[p] = "open")
              => lpc'[p] = "recv"
      ]_vars

(* C20: while no channel has failed, main does not die before GAME OVER.    *)
C20_ReachesGameOver ==
    (\A p \in Players : conn[p] = "open") => exit # "crashed"

====
